---- MODULE Spec2Model ----
(***************************************************************************)
(* Model of Am.py, a Streamlit script comparing the greenhouse-gas         *)
(* emissions of a Standard and an AM manufacturing route.                  *)
(*                                                                         *)
(* Streamlit executes the whole script from its first line on every user   *)
(* interaction.  Each action below is therefore one interaction followed   *)
(* by one complete run of the script: the module-level dictionary          *)
(* defaults_num is rebuilt from its literal (lines 21-37), then the branch *)
(* of the selected page runs.  The state of a widget that a run does not   *)
(* render is discarded by Streamlit.  What a run renders is a function of  *)
(* the values it read, so the rendered page is a state function (tab1 ..   *)
(* tab4, shown) of the variables and not a variable of its own.            *)
(*                                                                         *)
(* Numbers.  The script computes in binary floating point.  The model      *)
(* computes with exact rationals [n, d] (d > 0, lowest terms) and keeps    *)
(* the three non-finite values a float division by zero produces:          *)
(* d = 0 with n = 0 (nan), n = 1 (inf), n = -1 (-inf).  Rounding error of  *)
(* the binary representation is not modelled.                              *)
(***************************************************************************)
EXTENDS Integers, Sequences, FiniteSets

VARIABLES
    module_defaults, \* the dictionary the literal of lines 21-37 builds at the start of a run
    page,            \* sidebar selectbox: 1 = "Page 1: Input Data", 2 = "Page 2: Results"
    widget,          \* the values held by the Page 1 number_input widgets
    defaults_num,    \* the dictionary defaults_num at the end of the latest run
    country_select,  \* tab 2 selectbox
    checked,         \* tab 3: the set of ticked country checkboxes
    editor,          \* tab 4 data_editor: the rows of results_df kept, the rows added
    pdf,             \* what the "Generate PDF Report" block of the latest run did
    tmp_on_disk      \* number of temporary chart images lying on disk

vars ==
    <<module_defaults, page, widget, defaults_num, country_select, checked, editor, pdf,
      tmp_on_disk>>

----------------------------------------------------------------------------
(* Float arithmetic on exact rationals.                                    *)

Abs(x) == IF x < 0 THEN -x ELSE x

Sign(x) == IF x < 0 THEN -1 ELSE IF x = 0 THEN 0 ELSE 1

RECURSIVE GCD(_, _)
GCD(a, b) == IF b = 0 THEN a ELSE GCD(b, a % b)

\* The float n/d; d = 0 gives nan, inf or -inf by the sign of n.
Q(n, d) ==
    IF d = 0 THEN [n |-> Sign(n), d |-> 0]
    ELSE LET g == GCD(Abs(n), Abs(d))
         IN  [n |-> (Sign(d) * n) \div g, d |-> Abs(d) \div g]

F(i) == [n |-> i, d |-> 1]

NaN == [n |-> 0, d |-> 0]

Inf == [n |-> 1, d |-> 0]

NegInf == [n |-> -1, d |-> 0]

IsFinite(x) == x.d # 0

IsNaN(x) == x.d = 0 /\ x.n = 0

FNeg(x) == [n |-> -x.n, d |-> x.d]

FAdd(x, y) ==
    IF IsFinite(x) /\ IsFinite(y) THEN Q(x.n * y.d + y.n * x.d, x.d * y.d)
    ELSE IF IsNaN(x) \/ IsNaN(y) THEN NaN
    ELSE IF IsFinite(x) THEN y
    ELSE IF IsFinite(y) THEN x
    ELSE IF x.n = y.n THEN x ELSE NaN

FSub(x, y) == FAdd(x, FNeg(y))

FMul(x, y) ==
    IF IsFinite(x) /\ IsFinite(y) THEN Q(x.n * y.n, x.d * y.d)
    ELSE IF IsNaN(x) \/ IsNaN(y) \/ x.n = 0 \/ y.n = 0 THEN NaN
    ELSE Q(Sign(x.n) * Sign(y.n), 0)

\* Float division that does not raise: 0/0 is nan, x/0 is inf with the sign of x
\* (numpy.float64 and pandas Series operands).
FDiv(x, y) ==
    IF IsFinite(x) /\ IsFinite(y) THEN Q(x.n * y.d, x.d * y.n)
    ELSE IF IsNaN(x) \/ IsNaN(y) THEN NaN
    ELSE IF IsFinite(x) THEN F(0)
    ELSE IF IsFinite(y) THEN Q(x.n * (IF y.n < 0 THEN -1 ELSE 1), 0)
    ELSE NaN

FGt(x, y) ==
    IF IsNaN(x) \/ IsNaN(y) THEN FALSE
    ELSE IF IsFinite(x) /\ IsFinite(y) THEN x.n * y.d > y.n * x.d
    ELSE IF IsFinite(x) THEN y.n < 0
    ELSE IF IsFinite(y) THEN x.n > 0
    ELSE x.n > y.n

RECURSIVE Pow10(_)
Pow10(k) == IF k = 0 THEN 1 ELSE 10 * Pow10(k - 1)

\* round(x, k): to k decimals, ties to even; non-finite values are returned unchanged.
Round(x, k) ==
    IF ~IsFinite(x) THEN x
    ELSE LET s == x.n * Pow10(k)
             q == s \div x.d
             r == s - q * x.d
             up == (2 * r > x.d) \/ (2 * r = x.d /\ q % 2 = 1)
         IN  Q(IF up THEN q + 1 ELSE q, Pow10(k))

\* Series.sum() / the + chain over a column of floats.
RECURSIVE Sum(_)
Sum(s) == IF s = <<>> THEN F(0) ELSE FAdd(Head(s), Sum(Tail(s)))

----------------------------------------------------------------------------
(* Program data.                                                           *)

Keys ==
    {"raw_weight", "finished_weight", "material_emission", "energy_standard",
     "energy_am", "argon_use_am", "argon_emission_factor", "transport_standard_km",
     "transport_am_km", "transport_factor_air", "downtime_standard_months",
     "downtime_am_weeks", "efficiency_loss", "turbine_output", "grid_germany"}

\* Variant: finished_weight written as 32.0 in the literal.
defaults_literal_heavy ==
    [raw_weight               |-> Q(40, 10),
     finished_weight          |-> F(32),
     material_emission        |-> F(22),
     energy_standard          |-> F(150),
     energy_am                |-> F(90),
     argon_use_am             |-> F(2),
     argon_emission_factor    |-> Q(5, 10),
     transport_standard_km    |-> F(9000),
     transport_am_km          |-> F(500),
     transport_factor_air     |-> Q(6, 10),
     downtime_standard_months |-> F(6),
     downtime_am_weeks        |-> F(2),
     efficiency_loss          |-> Q(2, 100),
     turbine_output           |-> F(50),
     grid_germany             |-> Q(4, 10)]

\* defaults_num as the literal builds it.
defaults_literal ==
    [raw_weight               |-> Q(40, 10),
     finished_weight          |-> Q(32, 10),
     material_emission        |-> F(22),
     energy_standard          |-> F(150),
     energy_am                |-> F(90),
     argon_use_am             |-> F(2),
     argon_emission_factor    |-> Q(5, 10),
     transport_standard_km    |-> F(9000),
     transport_am_km          |-> F(500),
     transport_factor_air     |-> Q(6, 10),
     downtime_standard_months |-> F(6),
     downtime_am_weeks        |-> F(2),
     efficiency_loss          |-> Q(2, 100),
     turbine_output           |-> F(50),
     grid_germany             |-> Q(4, 10)]

\* list(grid_mix_dict.keys()): a dict keeps its insertion order.
countries_list ==
    <<"Germany", "USA", "China", "Japan", "France", "UK", "India", "Brazil",
      "Australia", "Canada">>

\* Variant: the catalog carries another factor for Germany than the parameter literal.
grid_mix_dict_other ==
    [c \in {countries_list[i] : i \in 1..Len(countries_list)} |->
        CASE c = "Germany"   -> Q(38, 100)
          [] c = "USA"       -> Q(25, 100)
          [] c = "China"     -> Q(75, 100)
          [] c = "Japan"     -> Q(43, 100)
          [] c = "France"    -> Q(7, 100)
          [] c = "UK"        -> Q(27, 100)
          [] c = "India"     -> Q(71, 100)
          [] c = "Brazil"    -> Q(8, 100)
          [] c = "Australia" -> Q(58, 100)
          [] c = "Canada"    -> Q(16, 100)]

grid_mix_dict ==
    [c \in {countries_list[i] : i \in 1..Len(countries_list)} |->
        CASE c = "Germany"   -> Q(40, 100)
          [] c = "USA"       -> Q(25, 100)
          [] c = "China"     -> Q(75, 100)
          [] c = "Japan"     -> Q(43, 100)
          [] c = "France"    -> Q(7, 100)
          [] c = "UK"        -> Q(27, 100)
          [] c = "India"     -> Q(71, 100)
          [] c = "Brazil"    -> Q(8, 100)
          [] c = "Australia" -> Q(58, 100)
          [] c = "Canada"    -> Q(16, 100)]

Countries == DOMAIN grid_mix_dict

StageNames == <<"Material", "Manufacturing", "Transport", "Downtime">>

----------------------------------------------------------------------------
(* The emission model.                                                     *)

material_co2(raw_weight, factor) == FMul(raw_weight, factor)

manufacturing_co2(energy_kwh, grid_mix, gas, gas_factor) ==
    FAdd(FMul(energy_kwh, grid_mix), FMul(gas, gas_factor))

transport_co2(weight_tons, km, factor) == FMul(FMul(weight_tons, km), factor)

downtime_co2(output_mw, loss_rate, hours, grid_mix) ==
    FMul(FMul(FMul(output_mw, loss_rate), hours), grid_mix)

----------------------------------------------------------------------------
(* Page 2.  dn is the dictionary defaults_num the run reads.               *)

\* Variant: the Standard route ships the raw mass.
weight_tons_raw(dn) == FDiv(dn.raw_weight, F(1000))

weight_tons_std(dn) == FDiv(dn.finished_weight, F(1000))

weight_tons_am(dn) == FDiv(dn.finished_weight, F(1000))

hours_std(dn) == FMul(FMul(dn.downtime_standard_months, F(30)), F(24))

\* Variant: the AM downtime taken as months.
hours_am_months(dn) == FMul(FMul(dn.downtime_am_weeks, F(30)), F(24))

hours_am(dn) == FMul(FMul(dn.downtime_am_weeks, F(7)), F(24))

mat_std(dn) == material_co2(dn.raw_weight, dn.material_emission)

\* Variant: the AM route charged with the raw mass.
mat_am_raw(dn) == material_co2(dn.raw_weight, dn.material_emission)

mat_am(dn) == material_co2(dn.finished_weight, dn.material_emission)

manuf_std(dn) == manufacturing_co2(dn.energy_standard, dn.grid_germany, F(0), F(0))

manuf_am(dn) ==
    manufacturing_co2(dn.energy_am, dn.grid_germany, dn.argon_use_am, dn.argon_emission_factor)

transport_std(dn) ==
    transport_co2(weight_tons_std(dn), dn.transport_standard_km, dn.transport_factor_air)

transport_am(dn) ==
    transport_co2(weight_tons_am(dn), dn.transport_am_km, dn.transport_factor_air)

downtime_std(dn) ==
    downtime_co2(dn.turbine_output, dn.efficiency_loss, hours_std(dn), dn.grid_germany)

downtime_am(dn) ==
    downtime_co2(dn.turbine_output, dn.efficiency_loss, hours_am(dn), dn.grid_germany)

\* The Germany-baseline DataFrame df.
df(dn) ==
    [Stage    |-> <<"Material", "Manufacturing", "Transport", "Downtime">>,
     Standard |-> <<mat_std(dn), manuf_std(dn), transport_std(dn), downtime_std(dn)>>,
     AM       |-> <<mat_am(dn), manuf_am(dn), transport_am(dn), downtime_am(dn)>>]

\* Tab 1: the chart data and the "CO2 Reduction (%)" metric.
Tab1(dn) ==
    LET d         == df(dn)
        total_std == Sum(d.Standard)
        total_am  == Sum(d.AM)
    IN  [df     |-> d,
         metric |-> Round(FMul(FDiv(FSub(total_std, total_am), total_std), F(100)), 2)]

\* Variant: the Standard route charged with the shielding gas.
manuf_std_c_gas(dn, grid_val) ==
    manufacturing_co2(dn.energy_standard, grid_val, dn.argon_use_am, dn.argon_emission_factor)

\* Per-country stage values, used by tabs 2, 3 and 4 with grid_val = grid_mix_dict[country].
manuf_std_c(dn, grid_val) == manufacturing_co2(dn.energy_standard, grid_val, F(0), F(0))

manuf_am_c(dn, grid_val) ==
    manufacturing_co2(dn.energy_am, grid_val, dn.argon_use_am, dn.argon_emission_factor)

downtime_std_c(dn, grid_val) ==
    downtime_co2(dn.turbine_output, dn.efficiency_loss, hours_std(dn), grid_val)

downtime_am_c(dn, grid_val) ==
    downtime_co2(dn.turbine_output, dn.efficiency_loss, hours_am(dn), grid_val)

\* Variant: the AM column lists Transport before Manufacturing.
df_country_swapped(dn, grid_val) ==
    [Stage    |-> <<"Material", "Manufacturing", "Transport", "Downtime">>,
     Standard |-> <<mat_std(dn), manuf_std_c(dn, grid_val), transport_std(dn),
                    downtime_std_c(dn, grid_val)>>,
     AM       |-> <<mat_am(dn), transport_am(dn), manuf_am_c(dn, grid_val),
                    downtime_am_c(dn, grid_val)>>]

df_country(dn, grid_val) ==
    [Stage    |-> <<"Material", "Manufacturing", "Transport", "Downtime">>,
     Standard |-> <<mat_std(dn), manuf_std_c(dn, grid_val), transport_std(dn),
                    downtime_std_c(dn, grid_val)>>,
     AM       |-> <<mat_am(dn), manuf_am_c(dn, grid_val), transport_am(dn),
                    downtime_am_c(dn, grid_val)>>]

\* ((total_std_c - total_am_c) / total_std_c * 100) of tab 2.
total_reduction(total_std_c, total_am_c) ==
    FMul(FDiv(FSub(total_std_c, total_am_c), total_std_c), F(100))

\* Tab 2: df_country, and df_comparison with its appended Total row.
Tab2(dn, country) ==
    LET dc          == df_country(dn, grid_mix_dict[country])
        diff        == [i \in 1..4 |-> FSub(dc.Standard[i], dc.AM[i])]
        red         == [i \in 1..4 |->
                          Round(FMul(FDiv(FSub(dc.Standard[i], dc.AM[i]), dc.Standard[i]),
                                     F(100)), 2)]
        total_std_c == Sum(dc.Standard)
        total_am_c  == Sum(dc.AM)
        total_diff  == FSub(total_std_c, total_am_c)
    IN  [country       |-> country,
         df_country    |-> dc,
         df_comparison |->
            [Stage      |-> dc.Stage \o <<"Total">>,
             Standard   |-> dc.Standard \o <<total_std_c>>,
             AM         |-> dc.AM \o <<total_am_c>>,
             Difference |-> diff \o <<total_diff>>,
             Reduction  |-> red \o <<total_reduction(total_std_c, total_am_c)>>]]

\* Variant: the ticked countries in reverse catalog order.
selected_countries_reversed(chk) ==
    LET rev == [i \in 1..Len(countries_list) |-> countries_list[Len(countries_list) + 1 - i]]
    IN  SelectSeq(rev, LAMBDA c : c \in chk)

\* Tab 3: the checkbox loop appends the ticked countries in catalog order.
selected_countries(chk) == SelectSeq(countries_list, LAMBDA c : c \in chk)

\* Variant: the downtime value enters the Total with the wrong sign.
comparison_row_minus(dn, country) ==
    LET grid_val   == grid_mix_dict[country]
        manuf_c    == manufacturing_co2(dn.energy_standard, grid_val, F(0), F(0))
        downtime_c == downtime_co2(dn.turbine_output, dn.efficiency_loss, hours_std(dn),
                                   grid_val)
    IN  [Country       |-> country,
         Material      |-> mat_std(dn),
         Manufacturing |-> manuf_c,
         Transport     |-> transport_std(dn),
         Downtime      |-> downtime_c,
         Total         |-> FSub(FAdd(FAdd(mat_std(dn), manuf_c), transport_std(dn)),
                                downtime_c)]

\* Variant: the row's manufacturing value taken at the Germany factor of the dictionary.
comparison_row_germany(dn, country) ==
    LET grid_val   == grid_mix_dict[country]
        manuf_c    == manufacturing_co2(dn.energy_standard, dn.grid_germany, F(0), F(0))
        downtime_c == downtime_co2(dn.turbine_output, dn.efficiency_loss, hours_std(dn),
                                   grid_val)
    IN  [Country       |-> country,
         Material      |-> mat_std(dn),
         Manufacturing |-> manuf_c,
         Transport     |-> transport_std(dn),
         Downtime      |-> downtime_c,
         Total         |-> FAdd(FAdd(FAdd(mat_std(dn), manuf_c), transport_std(dn)),
                                downtime_c)]

comparison_row(dn, country) ==
    LET grid_val   == grid_mix_dict[country]
        manuf_c    == manufacturing_co2(dn.energy_standard, grid_val, F(0), F(0))
        downtime_c == downtime_co2(dn.turbine_output, dn.efficiency_loss, hours_std(dn),
                                   grid_val)
    IN  [Country       |-> country,
         Material      |-> mat_std(dn),
         Manufacturing |-> manuf_c,
         Transport     |-> transport_std(dn),
         Downtime      |-> downtime_c,
         Total         |-> FAdd(FAdd(FAdd(mat_std(dn), manuf_c), transport_std(dn)),
                                downtime_c)]

\* Variant: tab 3 without the empty-selection branch.
Tab3_unguarded(dn, chk) ==
    LET sel == selected_countries(chk)
    IN  [warning   |-> FALSE,
         dataframe |-> TRUE,
         df_multi  |-> [i \in 1..Len(sel) |-> comparison_row(dn, sel[i])]]

\* Variant: the Total of a row carries over the Totals of the rows before it.
Tab3_running(dn, chk) ==
    LET sel == selected_countries(chk)
        row(i) == comparison_row(dn, sel[i])
    IN  IF Len(sel) = 0
        THEN [warning |-> TRUE, dataframe |-> FALSE, df_multi |-> <<>>]
        ELSE [warning   |-> FALSE,
              dataframe |-> TRUE,
              df_multi  |-> [i \in 1..Len(sel) |->
                               [row(i) EXCEPT !.Total = Sum([j \in 1..i |-> row(j).Total])]]]

\* Tab 3: a warning and nothing else when no box is ticked, df_multi otherwise.
Tab3(dn, chk) ==
    LET sel == selected_countries(chk)
    IN  IF Len(sel) = 0
        THEN [warning |-> TRUE, dataframe |-> FALSE, df_multi |-> <<>>]
        ELSE [warning   |-> FALSE,
              dataframe |-> TRUE,
              df_multi  |-> [i \in 1..Len(sel) |-> comparison_row(dn, sel[i])]]

\* Variant: only the first row of greatest Total is marked.
highlight_max_first(df_multi) ==
    {i \in DOMAIN df_multi :
        /\ \A j \in DOMAIN df_multi : ~FGt(df_multi[j].Total, df_multi[i].Total)
        /\ \A j \in DOMAIN df_multi : j < i => df_multi[j].Total # df_multi[i].Total}

\* Styler.highlight_max(subset=["Total"]): the rows whose Total equals the column
\* maximum are coloured; the rows themselves stay where they are.
highlight_max(df_multi) ==
    {i \in DOMAIN df_multi :
        \A j \in DOMAIN df_multi : ~FGt(df_multi[j].Total, df_multi[i].Total)}

\* Styler.highlight_min(subset=["Total"]).
highlight_min(df_multi) ==
    {i \in DOMAIN df_multi :
        \A j \in DOMAIN df_multi : ~FGt(df_multi[i].Total, df_multi[j].Total)}

\* Variant: the reduction taken relative to the AM total.
reduction_pct_of_am(total_std_c, total_am_c) ==
    IF FGt(total_std_c, F(0))
    THEN FMul(FDiv(FSub(total_std_c, total_am_c), total_am_c), F(100))
    ELSE F(0)

\* reduction_pct of tab 4: guarded by total_std_c > 0, else the integer 0.
reduction_pct(total_std_c, total_am_c) ==
    IF FGt(total_std_c, F(0))
    THEN FMul(FDiv(FSub(total_std_c, total_am_c), total_std_c), F(100))
    ELSE F(0)

\* Variant: the AM total starts from the Standard material value.
results_row_mixed(dn, country) ==
    LET grid_val    == grid_mix_dict[country]
        total_std_c == FAdd(FAdd(FAdd(mat_std(dn), manuf_std_c(dn, grid_val)),
                                 transport_std(dn)), downtime_std_c(dn, grid_val))
        total_am_c  == FAdd(FAdd(FAdd(mat_std(dn), manuf_am_c(dn, grid_val)),
                                 transport_am(dn)), downtime_am_c(dn, grid_val))
    IN  [Country   |-> country,
         Baseline  |-> Round(total_std_c, 2),
         AM        |-> Round(total_am_c, 2),
         Reduction |-> Round(reduction_pct(total_std_c, total_am_c), 1)]

results_row(dn, country) ==
    LET grid_val    == grid_mix_dict[country]
        total_std_c == FAdd(FAdd(FAdd(mat_std(dn), manuf_std_c(dn, grid_val)),
                                 transport_std(dn)), downtime_std_c(dn, grid_val))
        total_am_c  == FAdd(FAdd(FAdd(mat_am(dn), manuf_am_c(dn, grid_val)),
                                 transport_am(dn)), downtime_am_c(dn, grid_val))
    IN  [Country   |-> country,
         Baseline  |-> Round(total_std_c, 2),
         AM        |-> Round(total_am_c, 2),
         Reduction |-> Round(reduction_pct(total_std_c, total_am_c), 1)]

\* Tab 4: results_df, one row per item of grid_mix_dict.
results_df(dn) == [i \in 1..Len(countries_list) |-> results_row(dn, countries_list[i])]

\* A row added in the data editor: no country, missing numbers.
blank_row == [Country |-> "", Baseline |-> NaN, AM |-> NaN, Reduction |-> NaN]

\* edited_results = st.data_editor(results_df, num_rows="dynamic"): the rows of
\* results_df the user kept, followed by the rows the user added.
edited_results(dn, ed) ==
    LET rd   == results_df(dn)
        kept == SelectSeq([i \in 1..Len(rd) |-> i], LAMBDA i : i \in ed.kept)
    IN  [i \in 1..Len(kept) |-> rd[kept[i]]] \o [i \in 1..ed.added |-> blank_row]

\* DataFrame.empty.
empty(data_df) == Len(data_df) = 0

\* Where create_lca_pdf_report raises, if it does: while it lays out the title,
\* the sections and the results table (before its try block), in write_image of one
\* of the four charts, or after the charts up to doc.build.
FailPoints == {"none", "table", "chart1", "chart2", "chart3", "chart4", "build"}

\* create_lca_pdf_report: the temporary files it has created (NamedTemporaryFile with
\* delete=False) when it returns or raises at fail_at.  It removes none of them.
created_files(fail_at) ==
    CASE fail_at = "table"  -> 0
      [] fail_at = "chart1" -> 1
      [] fail_at = "chart2" -> 2
      [] fail_at = "chart3" -> 3
      [] fail_at = "chart4" -> 4
      [] fail_at = "build"  -> 4
      [] fail_at = "none"   -> 4

\* The button block when the button was not pressed in the run.
NotPressed ==
    [pressed |-> FALSE, built |-> FALSE, download |-> FALSE, warning |-> FALSE,
     error |-> FALSE, created |-> 0, removed |-> 0]

\* Variant: the button block without the test of edited_results.empty.
generate_pdf_unchecked(dn, ed, fail_at, locked) ==
    IF fail_at = "none"
    THEN [pressed |-> TRUE, built |-> TRUE, download |-> TRUE, warning |-> FALSE,
          error |-> FALSE, created |-> created_files(fail_at),
          removed |-> created_files(fail_at) - locked]
    ELSE [pressed |-> TRUE, built |-> FALSE, download |-> FALSE, warning |-> FALSE,
          error |-> TRUE, created |-> created_files(fail_at), removed |-> 0]

\* The "Generate PDF Report" button block.  locked is the number of temporary files
\* whose os.remove raises in the clean-up loop, where the exception is swallowed.
generate_pdf(dn, ed, fail_at, locked) ==
    IF ~empty(edited_results(dn, ed))
    THEN IF fail_at = "none"
         THEN [pressed |-> TRUE, built |-> TRUE, download |-> TRUE, warning |-> FALSE,
               error |-> FALSE, created |-> created_files(fail_at),
               removed |-> created_files(fail_at) - locked]
         ELSE [pressed |-> TRUE, built |-> FALSE, download |-> FALSE, warning |-> FALSE,
               error |-> TRUE, created |-> created_files(fail_at), removed |-> 0]
    ELSE [pressed |-> TRUE, built |-> FALSE, download |-> FALSE, warning |-> TRUE,
          error |-> FALSE, created |-> 0, removed |-> 0]

----------------------------------------------------------------------------
(* Bounds and input sets.                                                  *)

\* At most this many Page 1 inputs differ from their initial value at a time.
MaxEdited == 1

\* At most this many tab 3 checkboxes differ from their initial state at a time.
MaxToggled == 3

\* At most this many temporary chart images are left on disk.
MaxTempFiles == 4

\* The values a user types into the input of key k.
InputValues(k) == {F(0), defaults_literal[k], FMul(F(2), defaults_literal[k])}

zero_params == [k \in Keys |-> F(0)]

\* Standard total 0 everywhere, AM total 1.0 (shielding gas only).
gas_only_params ==
    [zero_params EXCEPT !.argon_use_am = F(2), !.argon_emission_factor = Q(5, 10)]

\* Standard total 0 in tab 1 only (grid_germany = 0), positive for every catalog country.
energy_only_params == [zero_params EXCEPT !.energy_standard = F(150), !.energy_am = F(90)]

\* Both routes alike: AM total = Standard total > 0.
equal_routes_params ==
    [defaults_literal EXCEPT !.raw_weight = Q(32, 10), !.energy_am = F(150),
                             !.argon_use_am = F(0), !.transport_am_km = F(9000),
                             !.downtime_standard_months = F(0), !.downtime_am_weeks = F(0)]

\* The parameter dictionaries Page 2 is evaluated on as a function of its inputs.
ParamSpace ==
    {zero_params, gas_only_params, energy_only_params, equal_routes_params}
      \cup UNION {{[defaults_literal EXCEPT ![k] = v] : v \in InputValues(k)} : k \in Keys}

----------------------------------------------------------------------------
(* The session.                                                            *)

\* st.checkbox(country, value=(idx < 3)): the first three boxes start ticked.
InitialChecked == {countries_list[i] : i \in 1..3}

\* st.selectbox(..., index=0).
InitialCountry == countries_list[1]

\* The data editor starts with every row of results_df and no added row.
InitialEditor == [kept |-> 1..Len(countries_list), added |-> 0]

\* The tables a user edits the data editor into: untouched, every row deleted, one
\* row left, every row deleted and a blank one added, a blank row added.
EditorStates ==
    {InitialEditor,
     [kept |-> {}, added |-> 0],
     [kept |-> {1}, added |-> 0],
     [kept |-> {}, added |-> 1],
     [kept |-> 1..Len(countries_list), added |-> 1]}

\* The numbers of temporary files whose removal can fail.
LockedChoices == 0..created_files("none")

\* st.button returns False in a run the button did not trigger; nothing touches the
\* temporary files then.
ButtonNotPressed ==
    /\ pdf' = NotPressed
    /\ tmp_on_disk' = tmp_on_disk

SymDiff(a, b) == (a \ b) \cup (b \ a)

\* Variant: the tab 2 block stores the selected grid factor into the dictionary.
RunScript_writes ==
    /\ module_defaults' = module_defaults
    /\ defaults_num' = IF page' = 1 THEN widget'
                       ELSE [module_defaults EXCEPT
                                !.grid_germany = grid_mix_dict[country_select']]

\* One run of the script, given the widget values of this run (primed): the literal
\* rebuilds defaults_num, and only the Page 1 branch stores the inputs into it.
RunScript ==
    /\ module_defaults' = module_defaults
    /\ defaults_num' = IF page' = 1 THEN widget' ELSE module_defaults

Init ==
    /\ module_defaults = defaults_literal
    /\ page = 1
    /\ widget = defaults_literal
    /\ defaults_num = defaults_literal
    /\ country_select = InitialCountry
    /\ checked = InitialChecked
    /\ editor = InitialEditor
    /\ pdf = NotPressed
    /\ tmp_on_disk = 0

\* The user types v into the number_input of key k on Page 1.
EditInput(k, v) ==
    /\ page = 1
    /\ v # widget[k]
    /\ widget' = [widget EXCEPT ![k] = v]
    /\ Cardinality({j \in Keys : widget'[j] # module_defaults[j]}) <= MaxEdited
    /\ UNCHANGED <<page, country_select, checked, editor>>
    /\ ButtonNotPressed
    /\ RunScript

\* The user picks the other page in the sidebar; the widgets of the page left are
\* not rendered by the run and start from their initial values when rendered again.
SelectPage(p) ==
    /\ p # page
    /\ page' = p
    /\ widget' = module_defaults
    /\ country_select' = InitialCountry
    /\ checked' = InitialChecked
    /\ editor' = InitialEditor
    /\ ButtonNotPressed
    /\ RunScript

\* The user picks a production location in tab 2.
SelectCountry(c) ==
    /\ page = 2
    /\ c # country_select
    /\ country_select' = c
    /\ UNCHANGED <<page, widget, checked, editor>>
    /\ ButtonNotPressed
    /\ RunScript

\* The user ticks or unticks a country checkbox in tab 3.
ToggleCountry(c) ==
    /\ page = 2
    /\ checked' = IF c \in checked THEN checked \ {c} ELSE checked \cup {c}
    /\ Cardinality(SymDiff(checked', InitialChecked)) <= MaxToggled
    /\ UNCHANGED <<page, widget, country_select, editor>>
    /\ ButtonNotPressed
    /\ RunScript

\* The user edits the tab 4 results table.
EditResults(ed) ==
    /\ page = 2
    /\ ed # editor
    /\ editor' = ed
    /\ UNCHANGED <<page, widget, country_select, checked>>
    /\ ButtonNotPressed
    /\ RunScript

\* The user presses "Generate PDF Report"; the report code raises at fail_at or not
\* at all, and locked of the temporary files resist their removal.
GeneratePdf(fail_at, locked) ==
    /\ page = 2
    /\ pdf' = generate_pdf(defaults_num, editor, fail_at, locked)
    /\ tmp_on_disk' = tmp_on_disk + pdf'.created - pdf'.removed
    /\ tmp_on_disk' <= MaxTempFiles
    /\ UNCHANGED <<page, widget, country_select, checked, editor>>
    /\ RunScript

\* The tabs are exercised one group at a time: tabs 2 and 3 while tab 4 is untouched,
\* tab 4 while the widgets of tabs 2 and 3 hold their initial values.
Tab4Idle == editor = InitialEditor /\ pdf = NotPressed /\ tmp_on_disk = 0

Tabs23Idle == country_select = InitialCountry /\ checked = InitialChecked

\* What the latest run rendered in each tab of Page 2 (nothing on Page 1).
NotRendered == <<>>

tab1 == IF page = 2 THEN Tab1(defaults_num) ELSE NotRendered

tab2 == IF page = 2 THEN Tab2(defaults_num, country_select) ELSE NotRendered

tab3 == IF page = 2 THEN Tab3(defaults_num, checked) ELSE NotRendered

tab4 == IF page = 2 THEN results_df(defaults_num) ELSE NotRendered

\* Everything a Page 2 run renders from the dictionary dn and its widgets.
Page2(dn, country, chk) == <<Tab1(dn), Tab2(dn, country), Tab3(dn, chk), results_df(dn)>>

shown == IF page = 2 THEN Page2(defaults_num, country_select, checked) ELSE NotRendered

Next ==
    \/ \E k \in Keys : \E v \in InputValues(k) : EditInput(k, v)
    \/ \E p \in {1, 2} : SelectPage(p)
    \/ Tab4Idle /\ \E c \in Countries : SelectCountry(c)
    \/ Tab4Idle /\ \E c \in Countries : ToggleCountry(c)
    \/ Tabs23Idle /\ \E ed \in EditorStates : EditResults(ed)
    \/ Tabs23Idle /\ \E fail_at \in FailPoints : \E locked \in LockedChoices :
          GeneratePdf(fail_at, locked)

Spec == Init /\ [][Next]_vars

(* Page 2 as a function of the dictionary it reads: the dictionary is drawn *)
(* from ParamSpace and the Page 2 interactions re-evaluate the page on it.  *)
(* Tab 2 reads country_select alone and tab 3 reads checked alone, so the   *)
(* two widgets are varied one at a time.                                    *)
InitCore ==
    /\ module_defaults \in ParamSpace
    /\ page = 2
    /\ widget = module_defaults
    /\ defaults_num = module_defaults
    /\ country_select = InitialCountry
    /\ checked = InitialChecked
    /\ editor = InitialEditor
    /\ pdf = NotPressed
    /\ tmp_on_disk = 0

NextCore ==
    \/ checked = InitialChecked /\ \E c \in Countries : SelectCountry(c)
    \/ country_select = InitialCountry /\ \E c \in Countries : ToggleCountry(c)

SpecCore == InitCore /\ [][NextCore]_vars

----------------------------------------------------------------------------
(* Reference values for the properties: the formulas of the emission model *)
(* written out on the parameter dictionary p and a grid factor g.          *)

Index(c) == CHOOSE i \in 1..Len(countries_list) : countries_list[i] = c

RefStage(route, stage, p, g) ==
    CASE stage = "Material" ->
           FMul(IF route = "Standard" THEN p.raw_weight ELSE p.finished_weight,
                p.material_emission)
      [] stage = "Manufacturing" ->
           IF route = "Standard"
           THEN FMul(p.energy_standard, g)
           ELSE FAdd(FMul(p.energy_am, g), FMul(p.argon_use_am, p.argon_emission_factor))
      [] stage = "Transport" ->
           FMul(FMul(FDiv(p.finished_weight, F(1000)),
                     IF route = "Standard" THEN p.transport_standard_km
                                           ELSE p.transport_am_km),
                p.transport_factor_air)
      [] stage = "Downtime" ->
           FMul(FMul(FMul(p.turbine_output, p.efficiency_loss),
                     IF route = "Standard" THEN FMul(p.downtime_standard_months, F(720))
                                           ELSE FMul(p.downtime_am_weeks, F(168))),
                g)

RefTotal(route, p, g) == Sum([i \in 1..4 |-> RefStage(route, StageNames[i], p, g)])

\* 100 (S - A) / S.
RefReduction(S, A) == FDiv(FMul(F(100), FSub(S, A)), S)

----------------------------------------------------------------------------
(* Properties.                                                             *)

\* C1: selecting Page 2 after editing the Page 1 inputs shows, in all four tabs, the
\* values computed from what the user entered on Page 1 (the contents of the form
\* when Page 1 was left), not from the built-in defaults.  The page shown after the
\* step is Page2(defaults_num', country_select', checked').
C1_Page2UsesEnteredValues ==
    [][(page = 1 /\ page' = 2) =>
          Page2(defaults_num', country_select', checked')
              = Page2(widget, country_select', checked')]_vars

C3_ReductionFormula ==
    page = 2 =>
        LET t1 == tab1
            t2 == tab2.df_comparison
            t4 == tab4
            S1 == Sum(t1.df.Standard)
            A1 == Sum(t1.df.AM)
            S2 == t2.Standard[5]
            A2 == t2.AM[5]
        IN  /\ S1 # F(0) =>
                  /\ t1.metric = Round(RefReduction(S1, A1), 2)
                  /\ A1 = S1 => t1.metric = F(0)
            /\ S2 # F(0) =>
                  /\ t2.Reduction[5] = RefReduction(S2, A2)
                  /\ A2 = S2 => t2.Reduction[5] = F(0)
            /\ LET r == t4[Index(country_select)]
                   g == grid_mix_dict[r.Country]
                   S == RefTotal("Standard", defaults_num, g)
                   A == RefTotal("AM", defaults_num, g)
               IN  /\ r.Country = country_select
                   /\ S # F(0) =>
                         /\ r.Reduction = Round(RefReduction(S, A), 1)
                         /\ A = S => r.Reduction = F(0)

\* C3 witness: both routes alike with a positive total, for a country other than the first.
C3_Witness ==
    /\ page = 2
    /\ country_select = "China"
    /\ LET t2 == tab2.df_comparison
       IN  /\ t2.Standard[5] # F(0)
           /\ t2.AM[5] = t2.Standard[5]
           /\ t2.Reduction[5] = F(0)
    /\ tab4[3].Reduction = F(0)

\* C4: tab 4 has exactly one row per catalog country, in catalog order, and the tab 3
\* table has exactly one row per ticked country, in catalog order, without duplicate
\* or omission.
C4_OneRowPerCountryInOrder ==
    page = 2 =>
        LET t3 == tab3
            t4 == tab4
        IN  /\ Len(t4) = Cardinality(Countries)
            /\ \A i \in 1..Len(t4) : t4[i].Country = countries_list[i]
            /\ \A i, j \in 1..Len(t4) : i # j => t4[i].Country # t4[j].Country
            /\ t3.dataframe =>
                  /\ Len(t3.df_multi) = Cardinality(checked)
                  /\ {t3.df_multi[i].Country : i \in 1..Len(t3.df_multi)} = checked
                  /\ \A i, j \in 1..Len(t3.df_multi) :
                        i < j => Index(t3.df_multi[i].Country) < Index(t3.df_multi[j].Country)

\* C4 witness: a selection that is not a prefix of the catalog.
C4_Witness ==
    /\ page = 2
    /\ checked = {"USA", "Japan"}
    /\ LET t3 == tab3
       IN  /\ Len(t3.df_multi) = 2
           /\ t3.df_multi[1].Country = "USA"
           /\ t3.df_multi[2].Country = "Japan"

\* C5 as stated: with no country ticked, tab 3 yields an empty comparison table and
\* does not refuse to produce one.
C5_EmptySelectionEmptyTable ==
    (page = 2 /\ checked = {}) =>
        LET t3 == tab3
        IN  t3.dataframe /\ t3.df_multi = <<>> /\ ~t3.warning

\* C5 amended: with no country ticked, tab 3 produces no comparison table: the run
\* shows the warning in its place, raises nothing and still renders the other tabs;
\* with at least one country ticked it shows the table and no warning.
C5_EmptySelectionWarns ==
    page = 2 =>
        LET t3 == tab3
        IN  /\ checked = {} => t3.warning /\ ~t3.dataframe /\ t3.df_multi = <<>>
            /\ checked # {} => ~t3.warning /\ t3.dataframe /\ Len(t3.df_multi) > 0
            /\ Len(tab4) = Len(countries_list)
            /\ tab2.country = country_select

\* C5 witness: every box unticked.
C5_Witness == page = 2 /\ checked = {} /\ tab3.warning

\* The stage values of a table (df or df_country) are those of the emission model at
\* grid factor g, stage by stage.
StagesAre(t, p, g) ==
    /\ t.Stage = StageNames
    /\ \A i \in 1..4 :
          /\ t.Standard[i] = RefStage("Standard", t.Stage[i], p, g)
          /\ t.AM[i] = RefStage("AM", t.Stage[i], p, g)

\* C6: in the tables of tab 1 and of tab 2, for every selectable country, the stages
\* are Material, Manufacturing, Transport, Downtime in this order, and position i of
\* the Standard column and of the AM column both hold the emission of stage i.
C6_StageOrder ==
    page = 2 =>
        LET t1 == tab1.df
            t2 == tab2
        IN  /\ StagesAre(t1, defaults_num, defaults_num.grid_germany)
            /\ StagesAre(t2.df_country, defaults_num, grid_mix_dict[country_select])
            /\ t2.df_comparison.Stage = StageNames \o <<"Total">>
            /\ \A i \in 1..4 :
                  /\ t2.df_comparison.Standard[i] = t2.df_country.Standard[i]
                  /\ t2.df_comparison.AM[i] = t2.df_country.AM[i]

\* C6 witness: a table whose eight stage values are pairwise different, so that no two
\* positions could be exchanged unnoticed.
C6_Witness ==
    /\ page = 2
    /\ country_select = "India"
    /\ LET t == tab2.df_country
       IN  Cardinality({t.Standard[i] : i \in 1..4} \cup {t.AM[i] : i \in 1..4}) = 8

\* C7: the Material stage is mass * material_emission, with raw_weight for Standard
\* and finished_weight for AM, whatever the grid factor (tabs 1, 2 and 3); it is 88.0
\* and 70.4 for raw 4.0, finished 3.2 and factor 22.0, and 0 when the mass is 0.
C7_MaterialStage ==
    page = 2 =>
        LET p   == defaults_num
            t1  == tab1.df
            t2  == tab2.df_country
            t3  == tab3.df_multi
            std == FMul(p.raw_weight, p.material_emission)
            am  == FMul(p.finished_weight, p.material_emission)
        IN  /\ t1.Standard[1] = std /\ t1.AM[1] = am
            /\ t2.Standard[1] = std /\ t2.AM[1] = am
            /\ \A i \in 1..Len(t3) : t3[i].Material = std
            /\ p.raw_weight = F(0) => t2.Standard[1] = F(0)
            /\ p.finished_weight = F(0) => t2.AM[1] = F(0)
            /\ (p.raw_weight = F(4) /\ p.finished_weight = Q(32, 10)
                  /\ p.material_emission = F(22))
                  => t2.Standard[1] = F(88) /\ t2.AM[1] = Q(704, 10)

\* C7 witness: the worked example, shown for a country whose grid factor is not Germany's.
C7_Witness ==
    /\ page = 2
    /\ country_select = "France"
    /\ defaults_num.raw_weight = F(4)
    /\ defaults_num.finished_weight = Q(32, 10)
    /\ defaults_num.material_emission = F(22)
    /\ LET t2 == tab2.df_country
       IN  t2.Standard[1] = F(88) /\ t2.AM[1] = Q(704, 10)

\* C8: the Manufacturing stage is energy * grid factor + gas volume * gas factor, the
\* Standard route with no gas term (exactly energy_standard * grid factor) and the AM
\* route with the shielding-gas term, in tab 1 (grid_germany), tab 2 (the selected
\* country) and tab 3 (each ticked country); 150 kWh at 0.4 is 60.0 for Standard, and
\* 90 kWh at 0.4 with 2 m3 at 0.5 is 37.0 for AM.
C8_ManufacturingStage ==
    page = 2 =>
        LET p  == defaults_num
            t1 == tab1.df
            t2 == tab2.df_country
            t3 == tab3.df_multi
            g2 == grid_mix_dict[country_select]
            gas == FMul(p.argon_use_am, p.argon_emission_factor)
        IN  /\ t1.Standard[2] = FMul(p.energy_standard, p.grid_germany)
            /\ t1.AM[2] = FAdd(FMul(p.energy_am, p.grid_germany), gas)
            /\ t2.Standard[2] = FMul(p.energy_standard, g2)
            /\ t2.AM[2] = FAdd(FMul(p.energy_am, g2), gas)
            /\ \A i \in 1..Len(t3) :
                  t3[i].Manufacturing = FMul(p.energy_standard, grid_mix_dict[t3[i].Country])
            /\ (p.energy_standard = F(150) /\ g2 = Q(4, 10)) => t2.Standard[2] = F(60)
            /\ (p.energy_am = F(90) /\ g2 = Q(4, 10) /\ p.argon_use_am = F(2)
                  /\ p.argon_emission_factor = Q(5, 10)) => t2.AM[2] = F(37)

\* C8 witness: the worked example, with a positive gas term, in tab 2 and in the
\* tab 3 table after Germany alone is left ticked.
C8_Witness ==
    /\ page = 2
    /\ country_select = "Germany"
    /\ checked = {"Germany"}
    /\ defaults_num = defaults_literal
    /\ LET t2 == tab2.df_country
       IN  t2.Standard[2] = F(60) /\ t2.AM[2] = F(37)
    /\ tab3.df_multi[1].Manufacturing = F(60)

\* C9: the Transport stage of a route is (finished_weight / 1000) * the route's
\* distance * transport_factor_air, with the same finished weight for both routes, so
\* that equal distances give equal emissions and doubling a route's distance doubles
\* its emission (tabs 1, 2 and 3).
C9_TransportStage ==
    page = 2 =>
        LET p   == defaults_num
            t1  == tab1.df
            t2  == tab2.df_country
            t3  == tab3.df_multi
            w   == FDiv(p.finished_weight, F(1000))
            std == FMul(FMul(w, p.transport_standard_km), p.transport_factor_air)
            am  == FMul(FMul(w, p.transport_am_km), p.transport_factor_air)
            p2  == [p EXCEPT !.transport_standard_km = FMul(F(2), @),
                             !.transport_am_km = FMul(F(2), @)]
            d2  == df(p2)
        IN  /\ t1.Standard[3] = std /\ t1.AM[3] = am
            /\ t2.Standard[3] = std /\ t2.AM[3] = am
            /\ \A i \in 1..Len(t3) : t3[i].Transport = std
            /\ p.transport_standard_km = p.transport_am_km => t1.Standard[3] = t1.AM[3]
            /\ d2.Standard[3] = FMul(F(2), t1.Standard[3])
            /\ d2.AM[3] = FMul(F(2), t1.AM[3])

\* C9 witness: the Standard distance doubled to 18000 km gives 34.56, twice 17.28,
\* also for a country other than the first.
C9_Witness ==
    /\ page = 2
    /\ country_select = "Brazil"
    /\ defaults_num.transport_standard_km = F(18000)
    /\ tab1.df.Standard[3] = Q(3456, 100)
    /\ tab2.df_country.Standard[3] = Q(3456, 100)
    /\ df(defaults_literal).Standard[3] = Q(1728, 100)

\* C10: the Downtime stage is turbine_output * efficiency_loss * hours * grid factor
\* with hours = downtime_standard_months * 720 for Standard and downtime_am_weeks *
\* 168 for AM (tabs 1, 2 and 3); 6 months, 50 MW, loss 0.02 and grid factor 0.4 give
\* 1728.0 for Standard.
C10_DowntimeStage ==
    page = 2 =>
        LET p   == defaults_num
            t1  == tab1.df
            t2  == tab2.df_country
            t3  == tab3.df_multi
            g2  == grid_mix_dict[country_select]
            std == FMul(FMul(p.turbine_output, p.efficiency_loss),
                        FMul(p.downtime_standard_months, F(720)))
            am  == FMul(FMul(p.turbine_output, p.efficiency_loss),
                        FMul(p.downtime_am_weeks, F(168)))
        IN  /\ t1.Standard[4] = FMul(std, p.grid_germany)
            /\ t1.AM[4] = FMul(am, p.grid_germany)
            /\ t2.Standard[4] = FMul(std, g2)
            /\ t2.AM[4] = FMul(am, g2)
            /\ \A i \in 1..Len(t3) :
                  t3[i].Downtime = FMul(std, grid_mix_dict[t3[i].Country])
            /\ (p.downtime_standard_months = F(6) /\ p.turbine_output = F(50)
                  /\ p.efficiency_loss = Q(2, 100) /\ p.grid_germany = Q(4, 10))
                  => t1.Standard[4] = F(1728)

\* C10 witness: the worked example in tab 1, with an AM downtime of 2 weeks (134.4),
\* and in the tab 3 rows of Germany (0.4) and China (0.75) once USA is unticked.
C10_Witness ==
    /\ page = 2
    /\ checked = {"Germany", "China"}
    /\ defaults_num = defaults_literal
    /\ LET t1 == tab1.df
       IN  t1.Standard[4] = F(1728) /\ t1.AM[4] = Q(1344, 10)
    /\ LET t3 == tab3.df_multi
       IN  t3[1].Downtime = F(1728) /\ t3[2].Downtime = F(3240)

\* C11: every reported scenario total is the sum of exactly the four stage emissions
\* of that scenario at that grid factor: the totals behind the tab 1 metric, the Total
\* row of tab 2, the Total column of tab 3, and, rounded to two decimals, the Baseline
\* and AM columns of tab 4 (in each state, the tab 4 row of the country selected in
\* tab 2).
C11_TotalsAreStageSums ==
    page = 2 =>
        LET p  == defaults_num
            t1 == tab1
            t2 == tab2.df_comparison
            t3 == tab3.df_multi
            t4 == tab4
            S1 == RefTotal("Standard", p, p.grid_germany)
            A1 == RefTotal("AM", p, p.grid_germany)
            g2 == grid_mix_dict[country_select]
        IN  /\ t1.metric = Round(FMul(FDiv(FSub(S1, A1), S1), F(100)), 2)
            /\ t2.Standard[5] = RefTotal("Standard", p, g2)
            /\ t2.AM[5] = RefTotal("AM", p, g2)
            /\ t2.Standard[5] = Sum(SubSeq(t2.Standard, 1, 4))
            /\ t2.AM[5] = Sum(SubSeq(t2.AM, 1, 4))
            /\ \A i \in 1..Len(t3) :
                  /\ t3[i].Total = RefTotal("Standard", p, grid_mix_dict[t3[i].Country])
                  /\ t3[i].Total = Sum(<<t3[i].Material, t3[i].Manufacturing,
                                         t3[i].Transport, t3[i].Downtime>>)
            /\ LET r == t4[Index(country_select)]
               IN  /\ r.Country = country_select
                   /\ r.Baseline = Round(RefTotal("Standard", p, g2), 2)
                   /\ r.AM = Round(RefTotal("AM", p, g2), 2)

\* C11 witness: the totals of India under the built-in values, 3278.98 and 422.92.
C11_Witness ==
    /\ page = 2
    /\ country_select = "India"
    /\ defaults_num = defaults_literal
    /\ LET t2 == tab2.df_comparison
       IN  t2.Standard[5] = Q(327898, 100) /\ t2.AM[5] = Q(37482, 100)
    /\ tab4[7].Baseline = Q(327898, 100)

\* C12: a comparison row depends only on the parameters and on its own country: the
\* tab 3 row of a ticked country is the row that country gets when it is ticked alone
\* and when every country is ticked, and the tab 4 row of the country selected in
\* tab 2, computed in the loop over the whole catalog, carries the totals tab 2
\* computes for that country alone.
C12_RowsIndependent ==
    page = 2 =>
        LET p   == defaults_num
            t2  == tab2.df_comparison
            t3  == tab3.df_multi
            t4  == tab4
            all == Tab3(p, Countries).df_multi
            k   == Index(country_select)
        IN  /\ \A i \in 1..Len(t3) :
                  LET c == t3[i].Country
                  IN  /\ t3[i] = Tab3(p, {c}).df_multi[1]
                      /\ t3[i] = all[Index(c)]
            /\ t4[k].Country = country_select
            /\ t4[k].Baseline = Round(t2.Standard[5], 2)
            /\ t4[k].AM = Round(t2.AM[5], 2)

\* C12 witness: India as third row of three, with the Total it has on its own.
C12_Witness ==
    /\ page = 2
    /\ checked = {"USA", "China", "India"}
    /\ defaults_num = defaults_literal
    /\ LET t3 == tab3.df_multi
       IN  /\ Len(t3) = 3
           /\ t3[3].Country = "India"
           /\ t3[3].Total = Q(327898, 100)
           /\ t3[1].Total # t3[3].Total

\* C13: a run of Page 2, whatever the tab 2 and tab 3 selections, leaves the
\* parameter dictionary as it found it, and the values that do not read the changed
\* selection (the tab 1 table and metric) come out the same again.
C13_Page2LeavesParameters ==
    [][(page = 2 /\ page' = 2) =>
          /\ defaults_num' = defaults_num
          /\ module_defaults' = module_defaults
          /\ Tab1(defaults_num') = Tab1(defaults_num)]_vars

\* C13 witness: Page 2 evaluated again, for another country, on edited parameters.
C13_Witness ==
    /\ page = 2
    /\ country_select = "Canada"
    /\ defaults_num # defaults_literal
    /\ defaults_num = module_defaults
    /\ tab1.df.Standard[2] = FMul(defaults_num.energy_standard, defaults_num.grid_germany)

C15_DefaultsReduceEverywhere ==
    (page = 2 /\ defaults_num = defaults_literal) =>
        LET t4 == tab4
        IN  /\ Len(t4) = Len(countries_list)
            /\ \A i \in 1..Len(t4) :
                  LET g == grid_mix_dict[t4[i].Country]
                      S == RefTotal("Standard", defaults_literal, g)
                      A == RefTotal("AM", defaults_literal, g)
                  IN  /\ FGt(A, F(0)) /\ FGt(S, A)
                      /\ FGt(t4[i].AM, F(0)) /\ FGt(t4[i].Baseline, t4[i].AM)
                      /\ FGt(t4[i].Reduction, F(0)) /\ FGt(F(100), t4[i].Reduction)

\* C15 witness: Page 2 on the built-in values; France shows 418.18, 102.18 and 75.6.
C15_Witness ==
    /\ page = 2
    /\ country_select = "France"
    /\ defaults_num = defaults_literal
    /\ LET r == tab4[5]
       IN  r.Baseline = Q(41818, 100) /\ r.AM = Q(10218, 100) /\ r.Reduction = Q(756, 10)

\* C16: pressing "Generate PDF Report" builds a report, creates temporary files or
\* offers a download only when the edited results table has at least one row; when
\* the table is empty nothing of that happens and a warning is shown instead.
C16_ReportOnlyForNonEmptyTable ==
    pdf.pressed =>
        LET data_df == edited_results(defaults_num, editor)
        IN  /\ page = 2
            /\ (pdf.built \/ pdf.download \/ pdf.created > 0 \/ pdf.error) => ~empty(data_df)
            /\ empty(data_df) =>
                  /\ ~pdf.built /\ ~pdf.download /\ ~pdf.error
                  /\ pdf.created = 0 /\ pdf.removed = 0
                  /\ pdf.warning
            /\ ~empty(data_df) => ~pdf.warning
            /\ pdf.download => pdf.built

\* C16 witness: the button pressed after every row was deleted, with nothing on disk.
C16_Witness ==
    /\ pdf.pressed
    /\ editor.kept = {} /\ editor.added = 0
    /\ pdf.warning /\ ~pdf.built
    /\ tmp_on_disk = 0

\* C17: after a "Generate PDF Report" run, whether the report was built or the run
\* failed in one of the four chart steps or in the document build, none of the
\* temporary chart images the run created is left on disk.
C17_NoTempFileRemains ==
    pdf.pressed => (pdf.created = pdf.removed /\ tmp_on_disk = 0)

\* C18: the views agree: the tab 4 Baseline of a country is the tab 3 Total of that
\* country and the tab 2 Standard total of that country, each rounded to two
\* decimals, and the tab 4 AM value is the tab 2 AM total rounded to two decimals.
C18_ViewsAgree ==
    page = 2 =>
        LET t2 == tab2.df_comparison
            t3 == tab3.df_multi
            t4 == tab4
            k  == Index(country_select)
        IN  /\ t4[k].Baseline = Round(t2.Standard[5], 2)
            /\ t4[k].AM = Round(t2.AM[5], 2)
            /\ \A i \in 1..Len(t3) :
                  t4[Index(t3[i].Country)].Baseline = Round(t3[i].Total, 2)

\* C18 witness: Germany in all three views, 1893.28 and 242.76, with two more rows
\* ticked in tab 3.
C18_Witness ==
    /\ page = 2
    /\ country_select = "Germany"
    /\ checked = {"Germany", "China", "Australia"}
    /\ defaults_num = defaults_literal
    /\ LET t2 == tab2.df_comparison
       IN  t2.Standard[5] = Q(189328, 100) /\ t2.AM[5] = Q(24276, 100)
    /\ tab3.df_multi[1].Total = Q(189328, 100)
    /\ tab4[1].Baseline = Q(189328, 100) /\ tab4[1].AM = Q(24276, 100)

\* C19: in every state of a session, with Germany selected in tab 2 the per-stage
\* Standard and AM values of tab 2 are exactly those of tab 1.
C19_GermanyMatchesBreakdown ==
    (page = 2 /\ country_select = "Germany") =>
        LET t1 == tab1.df
            t2 == tab2.df_country
        IN  /\ t2.Stage = t1.Stage
            /\ t2.Standard = t1.Standard
            /\ t2.AM = t1.AM

\* C19 witness: Germany selected in tab 2 and alone ticked in tab 3, with the stage
\* values that depend on the grid factor.
C19_Witness ==
    /\ page = 2
    /\ country_select = "Germany"
    /\ checked = {"Germany"}
    /\ LET t1 == tab1.df
           t2 == tab2.df_country
       IN  /\ t1.Standard[2] = F(60) /\ t2.Standard[2] = F(60)
           /\ t1.AM[4] = Q(1344, 10) /\ t2.AM[4] = Q(1344, 10)

\* C20: for non-negative parameters and a non-empty selection, the Total of the tab 3
\* table does not decrease with the grid factor of the row's country: a ticked
\* country of greatest grid factor is marked as maximum, one of smallest grid factor
\* as minimum, and the Material and Transport columns are the same in every row.
C20_TotalMonotoneInGridFactor ==
    (page = 2 /\ tab3.dataframe) =>
        LET t3   == tab3.df_multi
            rows == 1..Len(t3)
            g    == [i \in rows |-> grid_mix_dict[t3[i].Country]]
            hmax == highlight_max(t3)
            hmin == highlight_min(t3)
        IN  /\ rows # {}
            /\ \A i, j \in rows : ~FGt(g[i], g[j]) => ~FGt(t3[i].Total, t3[j].Total)
            /\ \A i \in rows : (\A j \in rows : ~FGt(g[j], g[i])) => i \in hmax
            /\ \A i \in rows : (\A j \in rows : ~FGt(g[i], g[j])) => i \in hmin
            /\ \A i, j \in rows :
                  t3[i].Material = t3[j].Material /\ t3[i].Transport = t3[j].Transport

\* C20 witness: four rows with the built-in values; China (0.75) alone is marked as
\* maximum and France (0.07) alone as minimum.
C20_Witness ==
    /\ page = 2
    /\ checked = {"Germany", "USA", "China", "France"}
    /\ defaults_num = defaults_literal
    /\ LET t3 == tab3.df_multi
       IN  /\ highlight_max(t3) = {3}
           /\ highlight_min(t3) = {4}
           /\ FGt(t3[3].Total, t3[1].Total)

====
